---- MODULE Spec2Model ----
(***************************************************************************)
(* A model of the process-execution and artifact-synchronisation layer of  *)
(* the mx launcher: Env.run, Env.init_java / format_java_cmd,              *)
(* Env.download, Env.update_file (mx.py) and the batching loop of the      *)
(* check command (commands.py).                                            *)
(*                                                                         *)
(* Each component has its own specification over the same variables; a     *)
(* specification leaves the variables of the other components at their     *)
(* initial values.                                                         *)
(*   SpecRun    Env.run with its drain workers and the child process       *)
(*   SpecJava   init_java, format_java_cmd, run_java                       *)
(*   SpecCheck  the batching loop of check                                 *)
(*   SpecFile   update_file                                                *)
(*   SpecDl     download                                                   *)
(***************************************************************************)
EXTENDS Integers, Sequences, FiniteSets, TLC

(***************************************************************************)
(* Bounds of the model.                                                    *)
(***************************************************************************)
\* calls of Env.run the caller makes in one program run
MaxCalls == 2
\* lines a child writes on one stream
MaxLines == 2

(***************************************************************************)
(* Values.                                                                 *)
(***************************************************************************)
\* A Python value passed to abort / carried by an exception: an int, a
\* string (a message, kept as a tuple of its parts) or None.
IntVal(n) == [t |-> "int", n |-> n, s |-> <<>>]
StrVal(s) == [t |-> "str", n |-> 0, s |-> s]
NoneVal == [t |-> "none", n |-> 0, s |-> <<>>]

\* An exception in flight.
Exc(kind, arg) == [kind |-> kind, arg |-> arg]
NoExc == Exc("none", NoneVal)

\* Env.abort: raise SystemExit(codeOrMessage).
abort(codeOrMessage) == Exc("SystemExit", codeOrMessage)

\* The exit status of the program when exception e reaches the top level
\* uncaught: SystemExit(int n) gives n, SystemExit(None) gives 0, SystemExit
\* of another value prints it and gives 1; any other exception prints a
\* traceback and gives 1.
ExitStatusOf(e) ==
  IF e.kind = "SystemExit"
  THEN CASE e.arg.t = "int" -> e.arg.n
         [] e.arg.t = "none" -> 0
         [] OTHER -> 1
  ELSE 1

NoStatus == -1
NoRet == -1

\* Exit statuses a child can end with, and errno values of a failed launch
\* (ENOENT, EACCES).
ExitCodes == {0, 1, 3}
Errnos == {2, 13}

Streams == {"stdout", "stderr"}
\* The k-th line the child writes on stream s.
Line(s, k) == <<s, k>>

\* Command lines given to run: a sequence of arguments, each a sequence of
\* atoms (see the Java VM arguments below).
Cmds == {<< <<"gmake">> >>, << <<"javac">>, <<"-g">> >>}

IsPrefix(p, q) == Len(p) <= Len(q) /\ SubSeq(q, 1, Len(p)) = p

VARIABLES
  \* the whole program
  prog,        \* "running" | "exited"
  exitStatus,  \* the exit status once exited, else NoStatus
  uncaught,    \* the exception that ended the program, else NoExc
  log,         \* what Env.log printed, in order
  launched,    \* the command lines of the child processes started, in order
  verbose,     \* Env.verbose (-v)
  \* Env.run, the call in progress or the last one made
  ncalls,      \* calls of run made so far
  runState,    \* "none" | "started" | "waiting" | "returned" | "raised"
  call,        \* [args, given, nonZeroIsFatal, out, err]: out/err TRUE when a sink is given
  child,       \* [st, code]: st "none" | "running" | "exited" | "failed"
  pipe,        \* per stream: lines written by the child and not yet read
  wrote,       \* per stream: every line the child wrote to its pipe
  sink,        \* per stream: the lines the sink was called with, in order
  worker,      \* per stream: "none" | "running" | "done"
  ret,         \* the value run returned, else NoRet
  \* the Java environment (Env fields) and the calls of format_java_cmd
  java_dbg,          \* Env.java_dbg (-d)
  jvm,               \* how the Java executable answers the version probes
  rawJava,           \* [args, pfx, sfx]: --J, --Jp, --Ja as parse_cmd_line left them
  java_args,         \* [isList, str, list]: the --J string, then its tokens
  java_args_pfx,     \* the --Jp strings, then the prefix tokens
  java_args_sfx,     \* the --Ja strings, then the suffix tokens
  java_initialized,  \* Env.java_initialized
  probes,            \* the version probes launched, in order
  initRuns,          \* times the body of init_java was entered
  jcalls,            \* calls of format_java_cmd made so far
  lastCmd,           \* the command the last format_java_cmd returned
  jret,              \* what the last run_java returned, else NoRet
  \* the batching loop of the check command
  allFiles,          \* javafilelist when the loop is entered
  javafilelist,      \* the files not yet dispatched
  batches,           \* the batches dispatched, in order (the first MaxRecorded)
  checkPc,           \* "loop" | "done" | "raised"
  warned,            \* the audit output of a batch held a warning line
  \* update_file on one path
  file,              \* [exists, data]: the file at the path
  writes,            \* times the file was written
  ufCalls,           \* calls of update_file made so far
  ufArg,             \* the content given to the last call
  ufRet,             \* what the last call returned: "none" | "True" | "False"
  ufErr,             \* the I/O error the last call met: "none" | "read" | "write"
  \* download(path, urls)
  urls,              \* the locators given to download
  dlIdx,             \* the index of the next locator of the for loop
  dlPc,              \* "loop" | "returned" | "raised"
  dest,              \* [exists, data]: the destination file
  tried,             \* the indexes of the locators tried, in order
  dlWinner,          \* the index of the locator that succeeded, else 0
  fallbackRuns,      \* launches of the URLConnectionDownload helper
  \* load_config_file(configFile, override)
  attrs,             \* the attributes of the Env object: name -> value
  cfgLines,          \* the lines of the config file not yet read
  cfgOverride,       \* the override argument of the call in progress
  cfgPc,             \* "idle" | "reading" | "raised"
  cfgLoads,          \* calls of load_config_file made so far
  \* main(env)
  commandAndArgs,    \* Env.commandAndArgs: the command name and its arguments
  command,           \* Env.command, "" until main sets it
  mainPc,            \* "start" | "command" | "done"
  cmdCalls,          \* command functions invoked so far
  cmdRet,            \* the value the command returned (NoneVal until then)
  cmdExc,            \* the exception the command raised, else NoExc
  \* run_graalvm
  graalvm,           \* Env.graalvm: the --graalvm option, NoneVal when not given
  os,                \* Env.os: "windows" | "linux"
  gvCalls,           \* calls of run_graalvm made so far
  gvVersion,         \* how the version command of the last call went, "none"
                     \* when it was not run: "ok" | "other" | "failed" | "oserror"
  gvRet              \* what the last run_graalvm returned, else NoRet

progVars == <<prog, exitStatus, uncaught, log, launched, verbose>>
runVars == <<ncalls, runState, call, child, pipe, wrote, sink, worker, ret>>
javaVars == <<java_dbg, jvm, rawJava, java_args, java_args_pfx, java_args_sfx,
              java_initialized, probes, initRuns, jcalls, lastCmd, jret>>
checkVars == <<allFiles, javafilelist, batches, checkPc, warned>>
fileVars == <<file, writes, ufCalls, ufArg, ufRet, ufErr>>
dlVars == <<urls, dlIdx, dlPc, dest, tried, dlWinner, fallbackRuns>>
cfgVars == <<attrs, cfgLines, cfgOverride, cfgPc, cfgLoads>>
mainVars == <<commandAndArgs, command, mainPc, cmdCalls, cmdRet, cmdExc>>
graalVars == <<graalvm, os, gvCalls, gvVersion, gvRet>>
vars == <<progVars, runVars, javaVars, checkVars, fileVars, dlVars, cfgVars, mainVars, graalVars>>

NoCall == [args |-> <<>>, given |-> [type |-> "list", elems |-> <<>>],
           nonZeroIsFatal |-> TRUE, out |-> FALSE, err |-> FALSE, cwd |-> "None"]
NoChild == [st |-> "none", code |-> 0, dir |-> "None"]
Empty2 == [s \in Streams |-> <<>>]

InitProg ==
  /\ prog = "running"
  /\ exitStatus = NoStatus
  /\ uncaught = NoExc
  /\ log = <<>>
  /\ launched = <<>>

InitRunVars ==
  /\ ncalls = 0
  /\ runState = "none"
  /\ call = NoCall
  /\ child = NoChild
  /\ pipe = Empty2
  /\ wrote = Empty2
  /\ sink = Empty2
  /\ worker = [s \in Streams |-> "none"]
  /\ ret = NoRet

\* The --J string before init_java, and the token list after it.
StrArgs(s) == [isList |-> FALSE, str |-> s, list |-> <<>>]
ListArgs(l) == [isList |-> TRUE, str |-> <<>>, list |-> l]

\* DEFAULT_JAVA_ARGS = '-ea -Xss2m -Xmx1g'
DEFAULT_JAVA_ARGS == <<"-ea", " ", "-Xss2m", " ", "-Xmx1g">>

NoJvm == [d64 |-> "ok", plain |-> "ok", rc |-> 0, output |-> <<>>]

\* Env.__init__ with no --J, --Jp, --Ja given.
InitJavaVars ==
  /\ java_dbg = FALSE
  /\ jvm = NoJvm
  /\ rawJava = [args |-> DEFAULT_JAVA_ARGS, pfx |-> <<>>, sfx |-> <<>>]
  /\ java_args = StrArgs(DEFAULT_JAVA_ARGS)
  /\ java_args_pfx = <<>>
  /\ java_args_sfx = <<>>
  /\ java_initialized = FALSE
  /\ probes = <<>>
  /\ initRuns = 0
  /\ jcalls = 0
  /\ lastCmd = <<>>
  /\ jret = NoRet

InitCheckVars ==
  /\ allFiles = <<>>
  /\ javafilelist = <<>>
  /\ batches = <<>>
  /\ checkPc = "loop"
  /\ warned = FALSE

Absent == [exists |-> FALSE, data |-> ""]
FileWith(data) == [exists |-> TRUE, data |-> data]

InitFileVars ==
  /\ file = Absent
  /\ writes = 0
  /\ ufCalls = 0
  /\ ufArg = ""
  /\ ufRet = "none"
  /\ ufErr = "none"

InitDlVars ==
  /\ urls = <<>>
  /\ dlIdx = 1
  /\ dlPc = "loop"
  /\ dest = Absent
  /\ tried = <<>>
  /\ dlWinner = 0
  /\ fallbackRuns = 0

\* A method of the Env object, seen as an attribute value.
BoundMethod == [t |-> "method", n |-> 0, s |-> <<>>]

\* Attribute names are kept as tuples of the pieces of the name.
JAVA_HOME == <<"java", "_", "home">>

\* The attributes of the Env object after parse_cmd_line that the config
\* lines can name: java_home is set, os is None unless --os is given, run
\* is a method.
BaseAttrs ==
  (JAVA_HOME :> StrVal(<<"/usr/jdk">>)) @@ (<<"os">> :> NoneVal) @@ (<<"run">> :> BoundMethod)

InitCfgVars ==
  /\ attrs = BaseAttrs
  /\ cfgLines = <<>>
  /\ cfgOverride = FALSE
  /\ cfgPc = "idle"
  /\ cfgLoads = 0

InitGraalVars ==
  /\ graalvm = NoneVal
  /\ os = "linux"
  /\ gvCalls = 0
  /\ gvVersion = "none"
  /\ gvRet = NoRet

InitMainVars ==
  /\ commandAndArgs = <<>>
  /\ command = ""
  /\ mainPc = "start"
  /\ cmdCalls = 0
  /\ cmdRet = NoneVal
  /\ cmdExc = NoExc

\* The program ends with exception e uncaught.
Terminate(e) ==
  /\ prog' = "exited"
  /\ uncaught' = e
  /\ exitStatus' = ExitStatusOf(e)

(***************************************************************************)
(* Env.run                                                                 *)
(***************************************************************************)
\* The sink of stream s in call c.
HasSink(c, s) == IF s = "stdout" THEN c.out ELSE c.err

\* OnOSError with the abort losing the error number (exit status 0).
OnOSError_AbortNone(errno, verb) ==
  IF verb THEN Exc("OSError", IntVal(errno)) ELSE abort(NoneVal)

\* except OSError as e: what run raises after logging the failed launch.
OnOSError(errno, verb) ==
  IF verb THEN Exc("OSError", IntVal(errno)) ELSE abort(IntVal(errno))

\* RunResult with the nonZeroIsFatal flag ignored.
RunResult_IgnoresFlag(retcode, nonZeroIsFatal, verb) ==
  IF retcode # 0
  THEN IF verb THEN Exc("CalledProcessError", IntVal(retcode))
               ELSE abort(IntVal(retcode))
  ELSE NoExc

\* The end of run once the child's exit status is known: the exception it
\* raises, or NoExc when it returns retcode.
RunResult(retcode, nonZeroIsFatal, verb) ==
  IF retcode # 0 /\ nonZeroIsFatal
  THEN IF verb THEN Exc("CalledProcessError", IntVal(retcode))
               ELSE abort(IntVal(retcode))
  ELSE NoExc

\* The log after the verbose echo of the command line.
LogCmd(l, args, verb) == IF verb THEN Append(l, <<"cmd", args>>) ELSE l

\* The value given as args: a list, a tuple or a string; an element is a
\* string (v: its text) or not (an int).
ArgStr(v) == [isStr |-> TRUE, v |-> v]
ArgInt(v) == [isStr |-> FALSE, v |-> v]
PyArgs(type, elems) == [type |-> type, elems |-> elems]
ListOf(c) == PyArgs("list", [i \in 1..Len(c) |-> ArgStr(c[i])])

\* Values given as args that are no command line: [], 'gmake', ('gmake',)
\* and ['javac', 8000].
BadArgs ==
  { PyArgs("list", <<>>),
    PyArgs("str", <<>>),
    PyArgs("tuple", << ArgStr(<<"gmake">>) >>),
    PyArgs("list", << ArgStr(<<"javac">>), ArgInt(<<"8000">>) >>) }

RunArgs == { ListOf(c) : c \in Cmds } \cup BadArgs

\* The two asserts at the head of run.
ArgsAssert(a) == a.type = "list" /\ \A i \in 1..Len(a.elems) : a.elems[i].isStr

\* The elements of args as run joins and passes them.
Strings(a) == [i \in 1..Len(a.elems) |-> a.elems[i].v]

\* What subprocess raises for an empty argument list: IndexError at
\* args[0] (POSIX) or a WindowsError, which is an OSError (Windows).
EmptyArgsErrors == {"IndexError", "OSError"}

\* The cwd argument of run: None, or a directory.  A child started with
\* cwd None runs in the directory of the program.
Dirs == {"None", "dir"}

\* The directory subprocess.call(args, cwd=cwd) starts the child in.
CallCwd(cwd) == cwd

\* The directory Popen(args, stdout=..., stderr=...) starts the child in:
\* the call passes no cwd.
PopenCwd(cwd) == "None"

\* run up to the start of the child: the asserts on args, the echo of the
\* command line and the start of the child (or the failure of the launch
\* with OSError errno).  Without a sink subprocess.call then waits for the
\* child; with one, Popen has returned and the drain workers are started
\* next.  The run variables describe the call in progress
\* or the last one made: the pipes, sinks and workers of an earlier call,
\* which are objects of their own, are no longer followed once the next
\* call begins.
Run_Launch(a, nzf, out, err, cwd, startable, errno) ==
  /\ prog = "running"
  /\ runState \in {"none", "returned"}
  /\ ncalls < MaxCalls
  /\ a.elems = <<>> => ~startable
  /\ ncalls' = ncalls + 1
  /\ call' = [args |-> Strings(a), given |-> a, nonZeroIsFatal |-> nzf,
              out |-> out, err |-> err, cwd |-> cwd]
  /\ pipe' = Empty2
  /\ wrote' = Empty2
  /\ sink' = Empty2
  /\ ret' = NoRet
  /\ UNCHANGED <<verbose, javaVars, checkVars, fileVars, dlVars, cfgVars, mainVars, graalVars>>
  /\ LET args == Strings(a)
         failed == /\ log' = Append(LogCmd(log, args, verbose),
                                    <<"Error executing", args, errno>>)
                   /\ child' = [st |-> "failed", code |-> errno, dir |-> "None"]
                   /\ worker' = [s \in Streams |-> "none"]
                   /\ runState' = "raised"
                   /\ Terminate(OnOSError(errno, verbose))
                   /\ UNCHANGED launched
     IN CASE ~ArgsAssert(a) ->
               /\ Terminate(Exc("AssertionError", NoneVal))
               /\ runState' = "raised"
               /\ child' = NoChild
               /\ worker' = [s \in Streams |-> "none"]
               /\ UNCHANGED <<log, launched>>
          [] ArgsAssert(a) /\ args = <<>> ->
               \E kind \in EmptyArgsErrors :
                 IF kind = "OSError"
                 THEN failed
                 ELSE /\ log' = LogCmd(log, args, verbose)
                      /\ Terminate(Exc(kind, NoneVal))
                      /\ runState' = "raised"
                      /\ child' = NoChild
                      /\ worker' = [s \in Streams |-> "none"]
                      /\ UNCHANGED launched
          [] ArgsAssert(a) /\ args # <<>> /\ startable ->
               /\ log' = LogCmd(log, args, verbose)
               /\ launched' = Append(launched, args)
               /\ child' = [st |-> "running", code |-> 0,
                            dir |-> IF out \/ err THEN PopenCwd(cwd) ELSE CallCwd(cwd)]
               /\ worker' = [s \in Streams |-> "none"]
               /\ runState' = IF out \/ err THEN "started" ELSE "waiting"
               /\ UNCHANGED <<prog, exitStatus, uncaught>>
          [] OTHER -> failed

\* WorkersStarted with the wait not held back by the workers.
WorkersStarted_NotAwaited(c, w) == TRUE

\* Every sink of call c has its drain worker in w.
WorkersStarted(c, w) == \A s \in Streams : HasSink(c, s) => w[s] # "none"

\* The main thread starts the drain worker of stream s (t.start()): the
\* one of stdout first, then the one of stderr, each only for a sink given.
StartWorker(s) ==
  /\ prog = "running"
  /\ runState = "started"
  /\ HasSink(call, s)
  /\ worker[s] = "none"
  /\ s = "stderr" => (call.out => worker["stdout"] # "none")
  /\ worker' = [worker EXCEPT ![s] = "running"]
  /\ UNCHANGED <<progVars, ncalls, runState, call, child, pipe, wrote, sink, ret>>
  /\ UNCHANGED <<javaVars, checkVars, fileVars, dlVars, cfgVars, mainVars, graalVars>>

\* With the workers started the main thread calls p.wait().
Run_Wait ==
  /\ prog = "running"
  /\ runState = "started"
  /\ WorkersStarted(call, worker)
  /\ runState' = "waiting"
  /\ UNCHANGED <<progVars, ncalls, call, child, pipe, wrote, sink, worker, ret>>
  /\ UNCHANGED <<javaVars, checkVars, fileVars, dlVars, cfgVars, mainVars, graalVars>>

\* The child writes its next line on a stream that is piped.
ChildWrite(s) ==
  /\ child.st = "running"
  /\ HasSink(call, s)
  /\ Len(wrote[s]) < MaxLines
  /\ LET l == Line(s, Len(wrote[s]) + 1) IN
       /\ wrote' = [wrote EXCEPT ![s] = Append(@, l)]
       /\ pipe' = [pipe EXCEPT ![s] = Append(@, l)]
  /\ UNCHANGED <<progVars, ncalls, runState, call, child, sink, worker, ret>>
  /\ UNCHANGED <<javaVars, checkVars, fileVars, dlVars, cfgVars, mainVars, graalVars>>

\* The child exits with status c; its ends of the pipes close.
ChildExit(c) ==
  /\ child.st = "running"
  /\ child' = [child EXCEPT !.st = "exited", !.code = c]
  /\ UNCHANGED <<progVars, ncalls, runState, call, pipe, wrote, sink, worker, ret>>
  /\ UNCHANGED <<javaVars, checkVars, fileVars, dlVars, cfgVars, mainVars, graalVars>>

\* redirect(stream, f), one step of a drain worker: it hands the next line
\* to the sink, or ends at end-of-input (pipe empty and closed).  A daemon
\* thread runs only while the program does.
redirect(s) ==
  /\ prog = "running"
  /\ worker[s] = "running"
  /\ \/ /\ pipe[s] # <<>>
        /\ sink' = [sink EXCEPT ![s] = Append(@, Head(pipe[s]))]
        /\ pipe' = [pipe EXCEPT ![s] = Tail(@)]
        /\ UNCHANGED worker
     \/ /\ pipe[s] = <<>>
        /\ child.st = "exited"
        /\ worker' = [worker EXCEPT ![s] = "done"]
        /\ UNCHANGED <<sink, pipe>>
  /\ UNCHANGED <<progVars, ncalls, runState, call, child, wrote, ret>>
  /\ UNCHANGED <<javaVars, checkVars, fileVars, dlVars, cfgVars, mainVars, graalVars>>

\* p.wait() (or subprocess.call) returns once the child has exited.
WaitReturns == child.st = "exited"

\* run from the return of the wait to its end: it returns the exit status
\* or ends the program.
Run_Finish ==
  /\ prog = "running"
  /\ runState = "waiting"
  /\ WaitReturns
  /\ LET e == RunResult(child.code, call.nonZeroIsFatal, verbose) IN
       IF e = NoExc
       THEN /\ ret' = child.code
            /\ runState' = "returned"
            /\ UNCHANGED <<prog, exitStatus, uncaught>>
       ELSE /\ runState' = "raised"
            /\ Terminate(e)
            /\ UNCHANGED ret
  /\ UNCHANGED <<log, launched, verbose, ncalls, call, child, pipe, wrote, sink, worker>>
  /\ UNCHANGED <<javaVars, checkVars, fileVars, dlVars, cfgVars, mainVars, graalVars>>

\* The caller of run is done and the program ends normally.
CallerEnds ==
  /\ prog = "running"
  /\ runState \in {"none", "returned"}
  /\ prog' = "exited"
  /\ exitStatus' = 0
  /\ UNCHANGED <<uncaught, log, launched, verbose, runVars, javaVars, checkVars,
                 fileVars, dlVars, cfgVars, mainVars, graalVars>>

InitRun ==
  /\ InitProg
  /\ InitCfgVars
  /\ InitMainVars
  /\ InitGraalVars
  /\ verbose \in BOOLEAN
  /\ InitRunVars
  /\ InitJavaVars
  /\ InitCheckVars
  /\ InitFileVars
  /\ InitDlVars

NextRun ==
  \/ \E a \in RunArgs, nzf \in BOOLEAN, out \in BOOLEAN, err \in BOOLEAN,
        cwd \in Dirs, startable \in BOOLEAN, errno \in Errnos :
       Run_Launch(a, nzf, out, err, cwd, startable, errno)
  \/ \E s \in Streams : StartWorker(s)
  \/ Run_Wait
  \/ \E s \in Streams : ChildWrite(s)
  \/ \E c \in ExitCodes : ChildExit(c)
  \/ \E s \in Streams : redirect(s)
  \/ Run_Finish
  \/ CallerEnds

SpecRun == InitRun /\ [][NextRun]_vars

\* A drain worker that can take a step is scheduled in the end.
FairSpecRun == SpecRun /\ \A s \in Streams : WF_vars(redirect(s))

(***************************************************************************)
(* Properties of Env.run, checked under SpecRun.                           *)
(***************************************************************************)
\* The call of run in the state is over: it returned or raised.
RunOver == runState \in {"returned", "raised"}

\* C1: when the child of a run with nonZeroIsFatal exits with a nonzero
\* status c, run does not return and the program ends with exit status c,
\* in verbose and non-verbose mode alike; once the program has ended no
\* child process is launched.
C1_FatalExitMirrorsChild ==
  /\ []((RunOver /\ child.st = "exited" /\ child.code # 0 /\ call.nonZeroIsFatal)
          => /\ runState = "raised"
             /\ prog = "exited"
             /\ exitStatus = child.code)
  /\ [][prog = "exited" => launched' = launched]_vars

\* C2: with nonZeroIsFatal false, run returns exactly the child's exit
\* status and does not end the program; with nonZeroIsFatal true the only
\* value run returns is 0.
C2_ReturnsChildStatus ==
  /\ runState = "returned"
       => /\ ret = child.code
          /\ uncaught = NoExc
          /\ call.nonZeroIsFatal => ret = 0
  /\ (RunOver /\ child.st = "exited" /\ ~call.nonZeroIsFatal)
       => runState = "returned"

C2_Witness ==
  /\ runState = "returned"
  /\ prog = "running"
  /\ ~call.nonZeroIsFatal
  /\ child.code = 3
  /\ ret = 3

\* C3: when the child cannot be started, then for both values of
\* nonZeroIsFatal the failing command line has been logged (it is the last
\* thing logged), the program has ended with a nonzero status, no child was
\* started for the call and run returned nothing.
C3_LaunchFailureIsFatal ==
  child.st = "failed"
    => /\ runState = "raised"
       /\ prog = "exited"
       /\ exitStatus # NoStatus
       /\ exitStatus # 0
       /\ ret = NoRet
       /\ log # <<>>
       /\ log[Len(log)] = <<"Error executing", call.args, child.code>>
       /\ Len(launched) < ncalls

C3_Witness ==
  /\ child.st = "failed"
  /\ ~call.nonZeroIsFatal
  /\ ~verbose
  /\ prog = "exited"
  /\ exitStatus = 13

\* Stream s of the call is captured and nothing more will be delivered to
\* its sink: its worker has ended or the program has.
DeliveryOver(s) == HasSink(call, s) /\ (worker[s] = "done" \/ prog = "exited")

\* C4: with both sinks, the lines of each stream reach that stream's sink
\* exactly once and in the order written, none reaches the other sink, and
\* every line written is delivered.
C4_EveryLineDelivered ==
  (call.out /\ call.err)
    => \A s \in Streams :
         /\ IsPrefix(sink[s], wrote[s])
         /\ \A i \in 1..Len(sink[s]) : sink[s][i][1] = s
         /\ DeliveryOver(s) => sink[s] = wrote[s]

\* C5: when run returns, every line the child wrote on a captured stream
\* has been delivered to the sink.
C5_DrainedAtReturn ==
  runState = "returned"
    => \A s \in Streams : HasSink(call, s) => sink[s] = wrote[s]

\* The value given as args is empty, is not a list, or has an element that
\* is not a string.
InvalidArgs(a) ==
  \/ a.type # "list"
  \/ a.elems = <<>>
  \/ \E i \in 1..Len(a.elems) : ~a.elems[i].isStr

\* C15: a call of run with args that is empty, is not a list or holds a
\* non-string fails with a programming error (an uncaught AssertionError or
\* IndexError) before anything is logged and before any child is launched.
C15_InvalidArgsFailFast ==
  [][(ncalls' = ncalls + 1 /\ InvalidArgs(call'.given)) =>
       /\ runState' = "raised"
       /\ prog' = "exited"
       /\ uncaught'.kind \in {"AssertionError", "IndexError"}
       /\ log' = log
       /\ launched' = launched]_vars

\* What stream.readline returns at end-of-input: the empty string.
EndOfInput == <<>>

\* C24: in a run with a sink, a drain worker is started for each sink given
\* and for no other stream; a worker is started only between the launch of
\* the child and the main thread's wait, so the wait begins with every
\* worker started; a worker ends only at the end-of-input of its stream
\* (pipe empty, child's end closed) and, once the stream is there, it does
\* end unless the program ends first; no sink is ever handed the empty
\* string.
C24_DrainWorkers ==
  /\ [](\A s \in Streams :
          /\ worker[s] # "none" => (HasSink(call, s) /\ child.st \in {"running", "exited"})
          /\ worker[s] = "done" => (pipe[s] = <<>> /\ child.st = "exited")
          /\ \A i \in 1..Len(sink[s]) : sink[s][i] # EndOfInput)
  /\ []((runState = "waiting" \/ (RunOver /\ child.st = "exited"))
          => \A s \in Streams : HasSink(call, s) => worker[s] # "none")
  /\ [][\A s \in Streams :
          (worker[s] = "none" /\ worker'[s] # "none")
            => (runState = "started" /\ runState' = "started"
                /\ child.st \in {"running", "exited"})]_vars
  /\ \A s \in Streams :
       (worker[s] = "running" /\ child.st = "exited")
         ~> (worker[s] # "running" \/ prog = "exited")

\* run was given the out sink only: its worker delivered both lines and
\* ended, stderr never had a worker.
C24_Witness ==
  /\ runState = "returned"
  /\ call.out /\ ~call.err
  /\ worker["stdout"] = "done"
  /\ worker["stderr"] = "none"
  /\ Len(sink["stdout"]) = MaxLines

\* C25: the child of a run given cwd runs in that directory, with a sink
\* and without one.
C25_ChildRunsInCwd ==
  child.st \in {"running", "exited"} => child.dir = call.cwd

(***************************************************************************)
(* Env.init_java, Env.format_java_cmd, Env.run_java                        *)
(*                                                                         *)
(* A string is a sequence of atoms: "@", " " (whitespace), "'" (a quote)   *)
(* or a run of other characters.  A token is a string; an argument list    *)
(* is a sequence of tokens.                                                *)
(***************************************************************************)
\* calls of format_java_cmd / run_java in one program run
MaxJavaCalls == 2

\* s.lstrip('@')
RECURSIVE LStripAt(_)
LStripAt(s) == IF s # <<>> /\ Head(s) = "@" THEN LStripAt(Tail(s)) ELSE s

\* shlex.split over the rest s of the string: toks are the tokens closed so
\* far, cur the token being read (has: one is being read), inq: inside
\* quotes.  An unclosed quote is an error (ValueError).
RECURSIVE ShlexFrom(_, _, _, _, _)
ShlexFrom(s, toks, cur, has, inq) ==
  IF s = <<>>
  THEN IF inq THEN [ok |-> FALSE, toks |-> <<>>]
       ELSE [ok |-> TRUE, toks |-> IF has THEN Append(toks, cur) ELSE toks]
  ELSE LET c == Head(s)
           r == Tail(s)
       IN IF inq
          THEN IF c = "'" THEN ShlexFrom(r, toks, cur, TRUE, FALSE)
                          ELSE ShlexFrom(r, toks, Append(cur, c), TRUE, TRUE)
          ELSE CASE c = " " -> ShlexFrom(r, IF has THEN Append(toks, cur) ELSE toks,
                                         <<>>, FALSE, FALSE)
                 [] c = "'" -> ShlexFrom(r, toks, cur, TRUE, TRUE)
                 [] OTHER -> ShlexFrom(r, toks, Append(cur, c), TRUE, FALSE)

\* delAtAndSplit(s) = shlex.split(s.lstrip('@'))
delAtAndSplit(s) == ShlexFrom(LStripAt(s), <<>>, <<>>, FALSE, FALSE)

\* sum(map(delAtAndSplit, l), [])
RECURSIVE SplitAll(_)
SplitAll(l) ==
  IF l = <<>> THEN [ok |-> TRUE, toks |-> <<>>]
  ELSE LET h == delAtAndSplit(Head(l))
           r == SplitAll(Tail(l))
       IN IF h.ok /\ r.ok THEN [ok |-> TRUE, toks |-> h.toks \o r.toks]
                          ELSE [ok |-> FALSE, toks |-> <<>>]

\* self.java, and the flags init_java adds
JavaExe == <<"java">>
D64 == <<"-d64">>
DebugFlags == << <<"-Xdebug">>,
                 <<"-Xrunjdwp:transport=dt_socket,server=y,suspend=y,address=8000">> >>
Probe64Cmd == <<JavaExe, D64, <<"-version">> >>
ProbePlainCmd == <<JavaExe, <<"-version">> >>

\* version.startswith('"1.6') or version.startswith('"1.7')
AcceptedVersion(version) ==
  IsPrefix(<<"\"1.6">>, version) \/ IsPrefix(<<"\"1.7">>, version)

\* Outputs of a version query, as output.split() sees them.
VersionOutputs ==
  { << <<"java">>, <<"version">>, <<"\"1.6", ".0_25\"">> >>,
    << <<"openjdk">>, <<"version">>, <<"\"1.7", ".0\"">> >>,
    << <<"java">>, <<"version">>, <<"\"1.5", ".0\"">> >>,
    << <<"gij">>, <<"version">>, <<"\"1.6", ".0\"">> >>,
    << <<"java">>, <<"full">>, <<"\"1.6", ".0\"">> >>,
    << <<"java">>, <<"version">> >>,
    <<>> }
ErrorOutput == << <<"Error:">>, <<"no">>, <<"JVM">> >>

\* The Java executables of the model: the answer to the -d64 probe and to
\* the plain probe ("ok", "fail": a nonzero exit rc, "oserror": the
\* executable cannot be launched) and the output of the last probe run.
JVMs ==
  { [d64 |-> d, plain |-> "ok", rc |-> 0, output |-> v] :
      d \in {"ok", "fail"}, v \in VersionOutputs }
  \cup { [d64 |-> "fail", plain |-> "fail", rc |-> r, output |-> ErrorOutput] :
           r \in {1, 3} }
  \cup { [d64 |-> "oserror", plain |-> "oserror", rc |-> 0, output |-> <<>>] }

\* The raw --J, --Jp and --Ja values of the model.
RawJavaArgs ==
  { DEFAULT_JAVA_ARGS,
    <<"@", "-dsa">>,
    <<"@", "-d64", " ", "-Xdebug">>,
    <<"@", "-D", "'", "a", " ", "b", "'">>,
    <<"'", "-x">> }
RawPfx == { <<>>, << <<"@", "-p1">> >>, << <<"@", "-p1", " ", "-p2">>, <<"-p3">> >> }
RawSfx == { <<>>, << <<"@", "-s1">> >> }
JavaCmdArgs == { << <<"-version">> >>, << <<"-cp">>, <<"x">>, <<"Main">> >> }

\* The Env fields init_java reads and writes.
JavaEnv ==
  [java_args |-> java_args, java_args_pfx |-> java_args_pfx,
   java_args_sfx |-> java_args_sfx, java_initialized |-> java_initialized,
   probes |-> probes, initRuns |-> initRuns]

JResult(j, e, out) == [j |-> j, exc |-> e, out |-> out]

\* AddDebugFlags with the flags put in front of the arguments.
AddDebugFlags_InFront(list, dbg) == IF dbg THEN DebugFlags \o list ELSE list

\* if self.java_dbg: self.java_args += ['-Xdebug', '-Xrunjdwp:...']
AddDebugFlags(list, dbg) == IF dbg THEN list \o DebugFlags ELSE list

\* PrependD64 with the flag put behind the arguments.
PrependD64_Behind(list) == list \o <<D64>>

\* self.java_args = ['-d64'] + self.java_args
PrependD64(list) == <<D64>> \o list

\* The version check and the end of init_java on the probe's output.
CheckVersion(j, output, dbg) ==
  CASE Len(output) < 1 -> JResult(j, Exc("IndexError", NoneVal), <<>>)
    [] Len(output) >= 1 /\ output[1] \notin {<<"java">>, <<"openjdk">>} ->
         JResult(j, Exc("AssertionError", NoneVal), <<>>)
    [] OTHER ->
         CASE Len(output) < 2 -> JResult(j, Exc("IndexError", NoneVal), <<>>)
           [] Len(output) >= 2 /\ output[2] # <<"version">> ->
                JResult(j, Exc("AssertionError", NoneVal), <<>>)
           [] OTHER ->
                IF Len(output) < 3
                THEN JResult(j, Exc("IndexError", NoneVal), <<>>)
                ELSE IF ~AcceptedVersion(output[3])
                THEN JResult(j, abort(StrVal(<<"Requires Java version 1.6 or 1.7, got version",
                                               output[3]>>)), <<>>)
                ELSE JResult(
                       [j EXCEPT !.java_args = ListArgs(AddDebugFlags(@.list, dbg)),
                                 !.java_initialized = TRUE],
                       NoExc, <<>>)

\* The version probes of init_java: -d64 first, the plain query when that
\* one exits nonzero.
ProbeJava(j, vm, dbg) ==
  LET j1 == [j EXCEPT !.probes = Append(@, Probe64Cmd)]
      j2 == [j1 EXCEPT !.probes = Append(@, ProbePlainCmd)]
  IN CASE vm.d64 = "ok" ->
            CheckVersion([j1 EXCEPT !.java_args = ListArgs(PrependD64(@.list))],
                         vm.output, dbg)
       [] vm.d64 = "oserror" -> JResult(j1, Exc("OSError", NoneVal), <<>>)
       [] OTHER ->
            CASE vm.plain = "ok" -> CheckVersion(j2, vm.output, dbg)
              [] vm.plain = "oserror" -> JResult(j2, Exc("OSError", NoneVal), <<>>)
              [] OTHER -> JResult(j2, abort(IntVal(vm.rc)), << <<"print", vm.output>> >>)

\* if self.java_initialized: return -- with the test lost
JavaInitGuard_Never(initialized) == FALSE

\* if self.java_initialized: return
JavaInitGuard(initialized) == initialized

\* init_java on the Env fields j: the fields after it, the exception it
\* raises (NoExc when it returns) and what it printed.
init_java(j, vm, dbg) ==
  IF JavaInitGuard(j.java_initialized) THEN JResult(j, NoExc, <<>>)
  ELSE
    LET j0 == [j EXCEPT !.initRuns = @ + 1] IN
    IF j.java_args.isList
    THEN JResult(j0, Exc("AttributeError", NoneVal), <<>>)
    ELSE
      LET a == delAtAndSplit(j.java_args.str)
          p == SplitAll(j.java_args_pfx)
          s == SplitAll(j.java_args_sfx)
          j1 == [j0 EXCEPT !.java_args = ListArgs(a.toks)]
          j2 == [j1 EXCEPT !.java_args_pfx = p.toks]
          j3 == [j2 EXCEPT !.java_args_sfx = s.toks]
      IN CASE ~a.ok -> JResult(j0, Exc("ValueError", NoneVal), <<>>)
           [] a.ok /\ ~p.ok -> JResult(j1, Exc("ValueError", NoneVal), <<>>)
           [] a.ok /\ p.ok /\ ~s.ok -> JResult(j2, Exc("ValueError", NoneVal), <<>>)
           [] OTHER -> ProbeJava(j3, vm, dbg)

\* JavaCmd with the prefix and suffix tokens left out.
JavaCmd_NoPrefix(j, args) == <<JavaExe>> \o j.java_args.list \o args

\* The command format_java_cmd returns on the initialised fields j.
JavaCmd(j, args) ==
  <<JavaExe>> \o j.java_args_pfx \o j.java_args.list \o j.java_args_sfx \o args

\* The Env fields become j.
SetJavaEnv(j) ==
  /\ java_args' = j.java_args
  /\ java_args_pfx' = j.java_args_pfx
  /\ java_args_sfx' = j.java_args_sfx
  /\ java_initialized' = j.java_initialized
  /\ probes' = j.probes
  /\ initRuns' = j.initRuns

\* format_java_cmd(args), called directly.
format_java_cmd(args) ==
  /\ prog = "running"
  /\ jcalls < MaxJavaCalls
  /\ jcalls' = jcalls + 1
  /\ LET r == init_java(JavaEnv, jvm, java_dbg) IN
       /\ SetJavaEnv(r.j)
       /\ log' = log \o r.out
       /\ IF r.exc = NoExc
          THEN /\ lastCmd' = JavaCmd(r.j, args)
               /\ UNCHANGED <<prog, exitStatus, uncaught>>
          ELSE /\ Terminate(r.exc)
               /\ UNCHANGED lastCmd
  /\ jret' = NoRet
  /\ UNCHANGED <<launched, verbose, runVars, java_dbg, jvm, rawJava, checkVars, fileVars,
                 dlVars, cfgVars, mainVars, graalVars>>

\* run_java(args, nonZeroIsFatal): run(format_java_cmd(args)) with no sink;
\* the child cannot be started (errno) or exits with status c.
run_java(args, nzf, startable, errno, c) ==
  /\ prog = "running"
  /\ jcalls < MaxJavaCalls
  /\ jcalls' = jcalls + 1
  /\ LET r == init_java(JavaEnv, jvm, java_dbg)
         cmd == JavaCmd(r.j, args)
         e == IF startable THEN RunResult(c, nzf, verbose)
                           ELSE OnOSError(errno, verbose)
     IN
       /\ SetJavaEnv(r.j)
       /\ IF r.exc # NoExc
          THEN /\ Terminate(r.exc)
               /\ log' = log \o r.out
               /\ UNCHANGED <<lastCmd, launched, jret>>
          ELSE /\ lastCmd' = cmd
               /\ log' = IF startable THEN LogCmd(log, cmd, verbose)
                         ELSE Append(LogCmd(log, cmd, verbose),
                                     <<"Error executing", cmd, errno>>)
               /\ launched' = IF startable THEN Append(launched, cmd) ELSE launched
               /\ IF e = NoExc
                  THEN /\ jret' = c
                       /\ UNCHANGED <<prog, exitStatus, uncaught>>
                  ELSE /\ Terminate(e)
                       /\ jret' = NoRet
  /\ UNCHANGED <<verbose, runVars, java_dbg, jvm, rawJava, checkVars, fileVars, dlVars,
                 cfgVars, mainVars, graalVars>>

InitJava ==
  /\ InitProg
  /\ InitCfgVars
  /\ InitMainVars
  /\ InitGraalVars
  /\ verbose \in BOOLEAN
  /\ InitRunVars
  /\ java_dbg \in BOOLEAN
  /\ jvm \in JVMs
  /\ rawJava \in [args : RawJavaArgs, pfx : RawPfx, sfx : RawSfx]
  /\ java_args = StrArgs(rawJava.args)
  /\ java_args_pfx = rawJava.pfx
  /\ java_args_sfx = rawJava.sfx
  /\ java_initialized = FALSE
  /\ probes = <<>>
  /\ initRuns = 0
  /\ jcalls = 0
  /\ lastCmd = <<>>
  /\ jret = NoRet
  /\ InitCheckVars
  /\ InitFileVars
  /\ InitDlVars

NextJava ==
  \/ \E args \in JavaCmdArgs : format_java_cmd(args)
  \/ \E args \in JavaCmdArgs, nzf \in BOOLEAN, startable \in BOOLEAN,
        errno \in Errnos, c \in ExitCodes :
       run_java(args, nzf, startable, errno, c)
  \/ CallerEnds

SpecJava == InitJava /\ [][NextJava]_vars

(***************************************************************************)
(* Properties of the Java environment, checked under SpecJava.             *)
(***************************************************************************)
\* C6: over any sequence of format_java_cmd / run_java calls the body of
\* init_java is entered at most once; the probes are launched by the first
\* call only (at most the two of one initialisation), and a call made once
\* java_initialized is set launches no probe and leaves java_args,
\* java_args_pfx and java_args_sfx as they are.
C6_InitOnce ==
  /\ [](initRuns <= 1 /\ Len(probes) <= 2 /\ (jcalls = 0 => probes = <<>>))
  /\ [][jcalls >= 1 =>
          /\ probes' = probes
          /\ initRuns' = initRuns
          /\ java_initialized =>
               /\ java_args' = java_args
               /\ java_args_pfx' = java_args_pfx
               /\ java_args_sfx' = java_args_sfx]_vars

C6_Witness ==
  /\ jcalls = 2
  /\ java_initialized
  /\ initRuns = 1
  /\ probes = <<Probe64Cmd, ProbePlainCmd>>
  /\ prog = "running"

\* The canonical VM argument list: prefix tokens + main tokens + suffix
\* tokens, as format_java_cmd joins them.
CanonicalArgs == java_args_pfx \o java_args.list \o java_args_sfx

\* The tokens of --J, --Jp and --Ja as given on the command line.
UserMain == delAtAndSplit(rawJava.args).toks
UserPfx == SplitAll(rawJava.pfx).toks
UserSfx == SplitAll(rawJava.sfx).toks

\* Occurrences of token x in the list l.
Count(l, x) == Cardinality({i \in 1..Len(l) : l[i] = x})

\* The output of the version query is one init_java accepts.
GoodVersionOutput(output) ==
  /\ Len(output) >= 3
  /\ output[1] \in {<<"java">>, <<"openjdk">>}
  /\ output[2] = <<"version">>
  /\ AcceptedVersion(output[3])

\* C17: java_initialized goes from false to true at most once and never
\* back, and only when tokenization, the version probe and the version
\* check have succeeded; every command format_java_cmd builds is built with
\* java_initialized true and starts with [java] + java_args_pfx + java_args
\* + java_args_sfx, which no longer change; when initialization fails the
\* program ends with java_initialized false and no Java command was
\* launched through run.
C17_JavaLifecycle ==
  /\ [][java_initialized => java_initialized']_vars
  /\ [][(~java_initialized /\ java_initialized') =>
          /\ delAtAndSplit(rawJava.args).ok
          /\ SplitAll(rawJava.pfx).ok
          /\ SplitAll(rawJava.sfx).ok
          /\ probes = <<>> /\ probes' # <<>>
          /\ jvm.d64 = "ok" \/ jvm.plain = "ok"
          /\ GoodVersionOutput(jvm.output)]_vars
  /\ [][java_initialized =>
          /\ java_args' = java_args
          /\ java_args_pfx' = java_args_pfx
          /\ java_args_sfx' = java_args_sfx]_vars
  /\ [](lastCmd # <<>> =>
          /\ java_initialized
          /\ IsPrefix(<<JavaExe>> \o CanonicalArgs, lastCmd))
  /\ []((initRuns >= 1 /\ ~java_initialized) =>
          /\ prog = "exited"
          /\ uncaught # NoExc
          /\ lastCmd = <<>>
          /\ launched = <<>>)

\* Two Java commands were run with prefix and suffix tokens in place.
C17_Witness ==
  /\ jcalls = 2
  /\ java_initialized
  /\ Len(launched) = 2
  /\ java_args_pfx # <<>>
  /\ java_args_sfx # <<>>
  /\ lastCmd[2] = <<"-p1">>

\* C18 as stated: when the -d64 probe succeeds, -d64 is the first element of
\* the canonical VM argument list of every Java command, directly after the
\* Java executable and before every prefix token, and init_java has added
\* it once; when the probe fails, -d64 is not added.
C18_D64FirstOfCanonical ==
  lastCmd # <<>> =>
    IF jvm.d64 = "ok"
    THEN /\ lastCmd[2] = D64
         /\ CanonicalArgs[1] = D64
         /\ Count(CanonicalArgs, D64) = 1 + Count(UserPfx \o UserMain \o UserSfx, D64)
    ELSE Count(CanonicalArgs, D64) = Count(UserPfx \o UserMain \o UserSfx, D64)

\* C18, amended: when the -d64 probe succeeds, init_java puts -d64 once at
\* the head of the main tokens (those of --J), so that in every Java
\* command it follows the Java executable and the prefix tokens (those of
\* --Jp) and precedes the main tokens; when the probe fails, -d64 is not
\* added.
C18_D64HeadsMainTokens ==
  /\ java_initialized =>
       /\ java_args_pfx = UserPfx
       /\ IsPrefix(IF jvm.d64 = "ok" THEN <<D64>> \o UserMain ELSE UserMain,
                   java_args.list)
       /\ Count(CanonicalArgs, D64) =
            (IF jvm.d64 = "ok" THEN 1 ELSE 0) + Count(UserPfx \o UserMain \o UserSfx, D64)
  /\ lastCmd # <<>> =>
       IsPrefix(<<JavaExe>> \o UserPfx \o (IF jvm.d64 = "ok" THEN <<D64>> ELSE <<>>)
                  \o UserMain,
                lastCmd)

\* A Java command with prefix tokens was built after a successful -d64
\* probe: -d64 follows the prefix token.
C18_Witness ==
  /\ jvm.d64 = "ok"
  /\ java_initialized
  /\ UserPfx = << <<"-p1">> >>
  /\ lastCmd # <<>>
  /\ lastCmd[2] = <<"-p1">>
  /\ lastCmd[3] = D64

\* C19 as stated: in debug mode the two remote-debugging flags are the last
\* elements of the canonical VM argument list, after every suffix token, in
\* every Java command, and init_java has added them once however many
\* commands are run; with debug mode off they are not added.
C19_DebugFlagsLastOfCanonical ==
  lastCmd # <<>> =>
    LET n == Len(CanonicalArgs)
        user == UserPfx \o UserMain \o UserSfx
    IN IF java_dbg
       THEN /\ n >= 2
            /\ SubSeq(CanonicalArgs, n - 1, n) = DebugFlags
            /\ SubSeq(lastCmd, n, n + 1) = DebugFlags
            /\ \A k \in 1..2 :
                 Count(CanonicalArgs, DebugFlags[k]) = 1 + Count(user, DebugFlags[k])
       ELSE \A k \in 1..2 : Count(CanonicalArgs, DebugFlags[k]) = Count(user, DebugFlags[k])

\* C19, amended: in debug mode init_java puts the two remote-debugging
\* flags once at the end of the main tokens, so that in every Java command
\* they follow the main tokens and precede the suffix tokens (those of
\* --Ja), however many commands are run; with debug mode off they are not
\* added.
C19_DebugFlagsEndMainTokens ==
  LET d == IF jvm.d64 = "ok" THEN <<D64>> ELSE <<>>
      g == IF java_dbg THEN DebugFlags ELSE <<>>
      user == UserPfx \o UserMain \o UserSfx
  IN /\ java_initialized =>
          /\ java_args.list = d \o UserMain \o g
          /\ java_args_sfx = UserSfx
          /\ \A k \in 1..2 :
               Count(CanonicalArgs, DebugFlags[k]) =
                 (IF java_dbg THEN 1 ELSE 0) + Count(user, DebugFlags[k])
     /\ lastCmd # <<>> =>
          IsPrefix(<<JavaExe>> \o UserPfx \o d \o UserMain \o g \o UserSfx, lastCmd)

\* Two Java commands were built in debug mode with a suffix token: the
\* flags come before the suffix token, once.
C19_Witness ==
  /\ java_dbg
  /\ jcalls = 2
  /\ java_initialized
  /\ UserSfx = << <<"-s1">> >>
  /\ lastCmd # <<>>
  /\ Count(lastCmd, DebugFlags[1]) = 1
  /\ Len(CanonicalArgs) >= 3
  /\ SubSeq(CanonicalArgs, Len(CanonicalArgs) - 2, Len(CanonicalArgs))
       = DebugFlags \o << <<"-s1">> >>

\* C20: init_java sets java_initialized only for a version output whose
\* first token is java or openjdk, whose second is version and whose third
\* starts with "1.6 or "1.7; for any other version output the program is
\* aborted with the message naming the required versions, java_initialized
\* stays false and no Java command is run.
C20_VersionGate ==
  /\ java_initialized => GoodVersionOutput(jvm.output)
  /\ ( /\ probes # <<>>
       /\ jvm.d64 = "ok" \/ jvm.plain = "ok"
       /\ ~GoodVersionOutput(jvm.output) )
     => /\ ~java_initialized
        /\ prog = "exited"
        /\ uncaught.kind = "SystemExit"
        /\ uncaught.arg.t = "str"
        /\ uncaught.arg.s[1] = "Requires Java version 1.6 or 1.7, got version"
        /\ lastCmd = <<>>
        /\ launched = <<>>

\* The plain version query was launched.
PlainQueryLaunched == \E i \in 1..Len(probes) : probes[i] = ProbePlainCmd

\* C21: the plain version query is launched if and only if the -d64 probe
\* was run and exited with a failure; when the plain query fails too, or
\* the Java executable cannot be launched at all, the program is aborted
\* (with the captured output of the tool printed, where there is one) and
\* java_initialized is never set.
C21_ProbeFailureAborts ==
  /\ PlainQueryLaunched <=> (probes # <<>> /\ jvm.d64 = "fail")
  /\ (probes # <<>> /\ jvm.d64 = "fail" /\ jvm.plain = "fail")
       => /\ prog = "exited"
          /\ uncaught.kind = "SystemExit"
          /\ \E k \in 1..Len(log) : log[k] = <<"print", jvm.output>>
          /\ ~java_initialized
  /\ (probes # <<>> /\ (jvm.d64 = "oserror" \/ (jvm.d64 = "fail" /\ jvm.plain = "oserror")))
       => /\ prog = "exited"
          /\ uncaught.kind = "SystemExit"
          /\ ~java_initialized

(***************************************************************************)
(* The batching loop of the check command (commands.py).                   *)
(*                                                                         *)
(* A file name is <<k, n>>: the k-th file of the list, n characters long.  *)
(***************************************************************************)
\* files in javafilelist
MaxFiles == 3
\* batches recorded in the history variable batches
MaxRecorded == 5

\* if (size + s < 30000)
BatchLimit == 30000

\* len(name)
NameLen(f) == f[2]

\* Lengths of the file names of the model: len + 1 is 10000, 15000, 20000,
\* 29999, 30000 or 40001.
NameLens == {9999, 14999, 19999, 29998, 29999, 40000}

\* The inner while loop: the index i it ends with, from index i and size.
RECURSIVE ScanBatch(_, _, _)
ScanBatch(list, i, size) ==
  IF i < Len(list)
  THEN LET s == NameLen(list[i + 1]) + 1
       IN IF size + s < BatchLimit THEN ScanBatch(list, i + 1, size + s) ELSE i
  ELSE i

\* javafilelist[:i] and javafilelist[i:]
ListHead(list, i) == SubSeq(list, 1, i)
ListRest(list, i) == SubSeq(list, i + 1, Len(list))

\* mx.abort(1) in commands.py: the module mx defines no function abort
\* (abort is a method of Env), so the call raises AttributeError.
mx_abort == Exc("AttributeError", NoneVal)

\* AuditResult with the warnings of the audit output ignored.
AuditResult_Ignored(warn, e) == e

\* The finally clause of a batch: the audit output is read whether run_java
\* returned or raised e; with a warning line in it mx.abort(1) is evaluated,
\* which replaces e, else e goes on.
AuditResult(warn, e) == IF warn THEN mx_abort ELSE e

\* One iteration of the outer loop: the batch is cut off javafilelist and
\* given to Checkstyle through run_java, which exits with status c; then
\* the audit file is read, and a warning in it (warn) ends the program.
CheckBatch(c, warn) ==
  /\ prog = "running"
  /\ checkPc = "loop"
  /\ Len(javafilelist) # 0
  /\ LET i == ScanBatch(javafilelist, 0, 0)
         batch == ListHead(javafilelist, i)
         e == RunResult(c, TRUE, verbose)
         f == AuditResult(warn, e)
     IN /\ javafilelist' = ListRest(javafilelist, i)
        /\ warned' = (warned \/ warn)
        /\ batches' = IF Len(batches) < MaxRecorded THEN Append(batches, batch)
                      ELSE batches
        /\ IF f = NoExc
           THEN UNCHANGED <<prog, exitStatus, uncaught, checkPc>>
           ELSE /\ Terminate(f)
                /\ checkPc' = "raised"
  /\ UNCHANGED <<log, launched, verbose, runVars, javaVars, allFiles, fileVars,
                 dlVars, cfgVars, mainVars, graalVars>>

\* The outer loop ends: len(javafilelist) == 0.
CheckLoopEnd ==
  /\ prog = "running"
  /\ checkPc = "loop"
  /\ Len(javafilelist) = 0
  /\ checkPc' = "done"
  /\ UNCHANGED <<progVars, runVars, javaVars, allFiles, javafilelist, batches, warned,
                 fileVars, dlVars, cfgVars, mainVars, graalVars>>

\* The file lists of the model.
FileLists ==
  UNION { [1..n -> NameLens] : n \in 0..MaxFiles }

InitCheck ==
  /\ InitProg
  /\ InitCfgVars
  /\ InitMainVars
  /\ InitGraalVars
  /\ verbose \in BOOLEAN
  /\ InitRunVars
  /\ InitJavaVars
  /\ \E lens \in FileLists :
       allFiles = [k \in 1..Len(lens) |-> <<k, lens[k]>>]
  /\ javafilelist = allFiles
  /\ batches = <<>>
  /\ checkPc = "loop"
  /\ warned = FALSE
  /\ InitFileVars
  /\ InitDlVars

NextCheck ==
  \/ \E c \in ExitCodes, warn \in BOOLEAN : CheckBatch(c, warn)
  \/ CheckLoopEnd

SpecCheck == InitCheck /\ [][NextCheck]_vars

\* The main thread keeps running: while Checkstyle runs that succeed and
\* leave no warning are possible, the loop goes on.  Nothing obliges a
\* Checkstyle run to fail.
FairSpecCheck ==
  /\ SpecCheck
  /\ WF_vars(CheckBatch(0, FALSE))
  /\ WF_vars(CheckLoopEnd)

(***************************************************************************)
(* Properties of the batching loop.                                        *)
(***************************************************************************)
RECURSIVE Concat(_)
Concat(ss) == IF ss = <<>> THEN <<>> ELSE Head(ss) \o Concat(Tail(ss))

\* sum of len(item) + 1 over a batch
RECURSIVE SerializedSize(_)
SerializedSize(b) ==
  IF b = <<>> THEN 0 ELSE NameLen(Head(b)) + 1 + SerializedSize(Tail(b))

OverLong(f) == NameLen(f) + 1 >= BatchLimit

\* C7: the loop dispatches every file of the list: it comes to an end
\* (unless a Checkstyle run ends the program), and then the batches
\* concatenated in dispatch order are the list; no batch is larger than the
\* bound except one that holds a single over-long file.
C7_BatchesReconstruct ==
  /\ <>(checkPc # "loop")
  /\ [](checkPc = "done" =>
          /\ Concat(batches) = allFiles
          /\ \A k \in 1..Len(batches) :
               \/ SerializedSize(batches[k]) <= BatchLimit
               \/ Len(batches[k]) = 1 /\ OverLong(batches[k][1]))

\* C8: an over-long file is dispatched in a batch of its own: a batch that
\* holds one holds nothing else, no empty batch is dispatched, and when the
\* loop is done every over-long file has been dispatched.
C8_OverLongAlone ==
  /\ \A k \in 1..Len(batches) :
       /\ batches[k] # <<>>
       /\ \A n \in 1..Len(batches[k]) : OverLong(batches[k][n]) => Len(batches[k]) = 1
  /\ checkPc = "done" =>
       \A n \in 1..Len(allFiles) :
         OverLong(allFiles[n]) => \E k \in 1..Len(batches) : batches[k] = <<allFiles[n]>>

\* C22: for every finite list of file names the batching loop ends: each
\* iteration of the outer loop takes at least one item off the remaining
\* list, so the loop is left after finitely many Checkstyle invocations.
C22_BatchLoopTerminates ==
  /\ [][(checkPc = "loop" /\ javafilelist # <<>> /\ <<batches, prog>>' # <<batches, prog>>)
          => Len(javafilelist') < Len(javafilelist)]_vars
  /\ <>(checkPc # "loop")

\* C23: the audit output of a batch is inspected when its Checkstyle
\* invocation has ended, whether it returned or aborted, and before the
\* next batch is built: once an audit output held a warning line the
\* program has ended with a nonzero exit status and no later batch is
\* built or dispatched; batches are dispatched one at a time.
C23_WarningStopsBatches ==
  /\ [](warned => (prog = "exited" /\ exitStatus # NoStatus /\ exitStatus # 0
                   /\ checkPc = "raised"))
  /\ [][warned => (batches' = batches /\ javafilelist' = javafilelist)]_vars
  /\ [][Len(batches') <= Len(batches) + 1]_vars

\* The first batch was clean; the audit output of the second one held a
\* warning and the program ended with files still to check.
C23_Witness ==
  /\ warned
  /\ Len(batches) = 2
  /\ javafilelist # <<>>
  /\ prog = "exited"
  /\ exitStatus = 1

(***************************************************************************)
(* Env.update_file                                                         *)
(***************************************************************************)
\* calls of update_file in one program run
MaxUpdates == 3

\* Contents given to update_file and found in the file.
Contents == {"", "a", "b"}
ThePath == "path"

\* update_file with the comparison lost: it always writes.
MustWrite_Always(f, content) == TRUE

\* not (old == content), where old is None when the file did not exist.
MustWrite(f, content) == ~(f.exists /\ f.data = content)

\* update_file without its except clause: the IOError goes up as it is.
OnIOError_Reraised(path, e) == Exc("IOError", StrVal(<<e>>))

\* except IOError as e: self.abort('Error while writing to ' + path + ': ' + str(e))
OnIOError(path, e) == abort(StrVal(<<"Error while writing to", path, e>>))

\* update_file(path, content).  ioerr: the read of an existing file fails
\* ("read"), the write fails ("write") or neither ("none"); a failed write
\* leaves the file as it was or, with trunc, opened and empty.
update_file(content, ioerr, trunc) ==
  /\ prog = "running"
  /\ ufCalls < MaxUpdates
  /\ ufCalls' = ufCalls + 1
  /\ ufArg' = content
  /\ LET existed == file.exists
         failed == OnIOError(ThePath, ioerr)
     IN CASE existed /\ ioerr = "read" ->
               /\ Terminate(failed)
               /\ ufRet' = "none"
               /\ ufErr' = "read"
               /\ UNCHANGED <<file, writes, log>>
          [] ~(existed /\ ioerr = "read") /\ ~MustWrite(file, content) ->
               /\ ufRet' = "False"
               /\ ufErr' = "none"
               /\ UNCHANGED <<file, writes, log, prog, exitStatus, uncaught>>
          [] ~(existed /\ ioerr = "read") /\ MustWrite(file, content)
               /\ ioerr = "write" ->
               /\ Terminate(failed)
               /\ ufRet' = "none"
               /\ ufErr' = "write"
               /\ file' = IF trunc THEN FileWith("") ELSE file
               /\ UNCHANGED <<writes, log>>
          [] OTHER ->
               /\ file' = FileWith(content)
               /\ writes' = writes + 1
               /\ log' = Append(log, <<IF existed THEN "modified" ELSE "created",
                                       ThePath>>)
               /\ ufRet' = "True"
               /\ ufErr' = "none"
               /\ UNCHANGED <<prog, exitStatus, uncaught>>
  /\ UNCHANGED <<launched, verbose, runVars, javaVars, checkVars, dlVars, cfgVars, mainVars, graalVars>>

InitFile ==
  /\ InitProg
  /\ InitCfgVars
  /\ InitMainVars
  /\ InitGraalVars
  /\ verbose \in BOOLEAN
  /\ InitRunVars
  /\ InitJavaVars
  /\ InitCheckVars
  /\ file \in {Absent} \cup {FileWith(d) : d \in Contents}
  /\ writes = 0
  /\ ufCalls = 0
  /\ ufArg = ""
  /\ ufRet = "none"
  /\ ufErr = "none"
  /\ InitDlVars

NextFile ==
  \E content \in Contents, ioerr \in {"none", "read", "write"}, trunc \in BOOLEAN :
    update_file(content, ioerr, trunc)

SpecFile == InitFile /\ [][NextFile]_vars

(***************************************************************************)
(* Properties of update_file, checked under SpecFile.                      *)
(***************************************************************************)
\* C9: a call of update_file that meets no I/O error writes the file and
\* returns True exactly when the file was absent or held other content,
\* and otherwise writes nothing and returns False; after the call the file
\* holds the given content.  So a call repeated with the content just
\* written writes nothing and returns False, and a call with other content
\* writes once more and returns True.
C9_WritesOnlyOnChange ==
  [][(ufCalls' = ufCalls + 1 /\ prog' = "running") =>
       LET differs == ~file.exists \/ file.data # ufArg'
       IN /\ ufRet' = IF differs THEN "True" ELSE "False"
          /\ writes' = IF differs THEN writes + 1 ELSE writes
          /\ file' = FileWith(ufArg')]_vars

C9_Witness ==
  /\ ufCalls = 3
  /\ writes = 2
  /\ ufRet = "True"
  /\ file = FileWith("b")
  /\ log = << <<"created", ThePath>>, <<"modified", ThePath>> >>
  /\ prog = "running"

\* C26: when the read of the existing file or the write of the new content
\* fails with an I/O error, the program is aborted with a message that
\* holds the path and the error, and the call returns neither True nor
\* False; a call that returned True or False met no I/O error.
C26_IOErrorAborts ==
  /\ ufErr # "none"
       => /\ prog = "exited"
          /\ uncaught.kind = "SystemExit"
          /\ uncaught.arg.t = "str"
          /\ \E i \in 1..Len(uncaught.arg.s) : uncaught.arg.s[i] = ThePath
          /\ \E i \in 1..Len(uncaught.arg.s) : uncaught.arg.s[i] = ufErr
          /\ exitStatus = 1
          /\ ufRet = "none"
  /\ ufRet \in {"True", "False"} => ufErr = "none"

\* The second call met an error when it wrote other content over the file.
C26_Witness ==
  /\ ufCalls = 2
  /\ ufErr = "write"
  /\ writes = 1
  /\ ufRet = "none"
  /\ prog = "exited"

(***************************************************************************)
(* Env.download                                                            *)
(***************************************************************************)
\* locators given to download
MaxUrls == 3

\* What a server sends: raw bytes, or a zip archive that holds the entry
\* asked for (has) with content entryData, or a zip archive without it.
RawBody(data) == [isZip |-> FALSE, raw |-> data, has |-> FALSE, entryData |-> ""]
ZipBody(has, data) == [isZip |-> TRUE, raw |-> "zipbytes", has |-> has, entryData |-> data]
EmptyBody == RawBody("")

\* A locator: a plain URL, or 'zip:' / 'jar:' + URL + '!/' + entry (sep:
\* the "!/" is there); reachable: the URL can be opened and read.
Plain(reachable, body) ==
  [scheme |-> "http", sep |-> FALSE, reachable |-> reachable, body |-> body]
Archive(scheme, sep, reachable, body) ==
  [scheme |-> scheme, sep |-> sep, reachable |-> reachable, body |-> body]

Locators ==
  { Plain(TRUE, RawBody("A")), Plain(TRUE, RawBody("B")), Plain(FALSE, EmptyBody),
    Archive("zip", FALSE, TRUE, ZipBody(TRUE, "E")),
    Archive("jar", TRUE, FALSE, EmptyBody),
    Archive("zip", TRUE, TRUE, ZipBody(TRUE, "E")),
    Archive("jar", TRUE, TRUE, RawBody("junk")),
    Archive("zip", TRUE, TRUE, ZipBody(FALSE, "")) }

\* The content a locator names: the body of a plain URL, the entry of an
\* archive.
ContentOf(loc) == IF loc.scheme = "http" THEN loc.body.raw ELSE loc.body.entryData

\* f.read() on a stream holding b: everything, and the stream is at its end.
ReadAll(b) == [data |-> b, rest |-> EmptyBody]

\* The try block of the loop up to the write, for locator loc: the data to
\* write ("ok"), or the exception raised.
Fetched(data) == [res |-> "ok", data |-> data, exc |-> NoExc]
FetchRaises(e) == [res |-> "raise", data |-> "", exc |-> e]
Fetch(loc) ==
  IF loc.scheme \in {"zip", "jar"}
  THEN IF ~loc.sep
       THEN FetchRaises(abort(StrVal(<<"Zip or jar URL does not contain \"!/\": ", loc>>)))
       ELSE IF ~loc.reachable THEN FetchRaises(Exc("IOError", NoneVal))
       ELSE LET first == ReadAll(loc.body)          \* data = f.read()
                second == ReadAll(first.rest)       \* zipdata = StringIO(f.read())
                zipdata == second.data
            IN IF ~zipdata.isZip THEN FetchRaises(Exc("BadZipfile", NoneVal))
               ELSE IF ~zipdata.has THEN FetchRaises(Exc("KeyError", NoneVal))
               ELSE Fetched(zipdata.entryData)
  ELSE IF ~loc.reachable THEN FetchRaises(Exc("IOError", NoneVal))
       ELSE Fetched(ReadAll(loc.body).data.raw)

\* except IOError / except zipfile.BadZipfile: the exceptions the loop
\* logs and goes on after.
CaughtInLoop(e) == e.kind \in {"IOError", "BadZipfile"}

\* AfterAttempt with the return after a successful write lost.
AfterAttempt_NoReturn(succeeded, i) == [pc |-> "loop", idx |-> i + 1]

\* Where download goes after the attempt of locator i: it returns after a
\* successful write, else the loop takes the next locator.
AfterAttempt(succeeded, i) ==
  IF succeeded THEN [pc |-> "returned", idx |-> i] ELSE [pc |-> "loop", idx |-> i + 1]

\* DestAfter with the destination opened for writing before the content
\* is read.
DestAfter_OpenedFirst(r, wfail, d) ==
  IF r.res = "ok"
  THEN CASE wfail = "none" -> FileWith(r.data)
         [] wfail = "write" -> FileWith("")
         [] OTHER -> d
  ELSE FileWith("")

\* The destination d after the attempt of a locator with fetch result r:
\* open(path, 'w') and f.write(data) are reached only with the data read
\* (and the entry extracted); wfail tells how far the write gets.
DestAfter(r, wfail, d) ==
  IF r.res = "ok"
  THEN CASE wfail = "none" -> FileWith(r.data)
         [] wfail = "write" -> FileWith("")
         [] OTHER -> d
  ELSE d

\* One iteration of the for loop, on urls[dlIdx].  wfail: writing the
\* destination fails with IOError at the open ("open"), after it ("write",
\* the file is left empty), or not at all ("none").
download_try(wfail) ==
  /\ prog = "running"
  /\ dlPc = "loop"
  /\ dlIdx <= Len(urls)
  /\ LET loc == urls[dlIdx]
         r == Fetch(loc)
         e == IF r.res = "ok"
              THEN IF wfail = "none" THEN NoExc ELSE Exc("IOError", NoneVal)
              ELSE r.exc
         next == AfterAttempt(e = NoExc, dlIdx)
     IN /\ tried' = Append(tried, dlIdx)
        /\ dest' = DestAfter(r, wfail, dest)
        /\ log' = IF CaughtInLoop(e)
                  THEN log \o << <<"Downloading", dlIdx>>, <<"Error", e.kind, dlIdx>> >>
                  ELSE Append(log, <<"Downloading", dlIdx>>)
        /\ IF e = NoExc \/ CaughtInLoop(e)
           THEN /\ dlPc' = next.pc
                /\ dlIdx' = next.idx
                /\ dlWinner' = IF e = NoExc THEN dlIdx ELSE dlWinner
                /\ UNCHANGED <<prog, exitStatus, uncaught>>
           ELSE /\ Terminate(e)
                /\ dlPc' = "raised"
                /\ UNCHANGED <<dlIdx, dlWinner>>
  /\ UNCHANGED <<launched, verbose, runVars, javaVars, checkVars, fileVars, cfgVars, mainVars, graalVars, urls,
                 fallbackRuns>>

\* The command line of the delegated fetch.
FallbackCmd == << JavaExe, <<"-cp">>, <<"myDir">>, <<"URLConnectionDownload">>, <<"path">> >>

\* After the loop: the helper is compiled when its class file is missing
\* or stale (stale; javac fails when ~compiles) and run through run with
\* the destination and the URLs; it cannot be started (errno) or exits with
\* status c.
download_fallback(stale, compiles, startable, errno, c) ==
  /\ prog = "running"
  /\ dlPc = "loop"
  /\ dlIdx > Len(urls)
  /\ IF stale /\ ~compiles
     THEN /\ Terminate(Exc("CalledProcessError", NoneVal))
          /\ dlPc' = "raised"
          /\ UNCHANGED <<log, launched, dest, fallbackRuns>>
     ELSE LET e == IF startable THEN RunResult(c, TRUE, verbose)
                                ELSE OnOSError(errno, verbose)
              failed == abort(StrVal(<<"Could not download to ", "path",
                                       " from any of the following URLs", urls,
                                       "Please use a web browser to do the download manually">>))
          IN /\ log' = IF startable THEN LogCmd(log, FallbackCmd, verbose)
                       ELSE Append(LogCmd(log, FallbackCmd, verbose),
                                   <<"Error executing", FallbackCmd, errno>>)
             /\ launched' = IF startable THEN Append(launched, FallbackCmd) ELSE launched
             /\ fallbackRuns' = fallbackRuns + 1
             /\ dest' = IF startable /\ c = 0 THEN FileWith("fetched by helper") ELSE dest
             /\ CASE e # NoExc -> Terminate(e) /\ dlPc' = "raised"
                  [] e = NoExc /\ c # 0 -> Terminate(failed) /\ dlPc' = "raised"
                  [] OTHER -> /\ dlPc' = "returned"
                              /\ UNCHANGED <<prog, exitStatus, uncaught>>
  /\ UNCHANGED <<verbose, runVars, javaVars, checkVars, fileVars, cfgVars, mainVars, graalVars, urls, dlIdx, tried,
                 dlWinner>>

UrlLists == UNION { [1..n -> Locators] : n \in 0..MaxUrls }

InitDl ==
  /\ InitProg
  /\ InitCfgVars
  /\ InitMainVars
  /\ InitGraalVars
  /\ verbose \in BOOLEAN
  /\ InitRunVars
  /\ InitJavaVars
  /\ InitCheckVars
  /\ InitFileVars
  /\ urls \in UrlLists
  /\ dlIdx = 1
  /\ dlPc = "loop"
  /\ dest \in {Absent, FileWith("old")}
  /\ tried = <<>>
  /\ dlWinner = 0
  /\ fallbackRuns = 0

NextDl ==
  \/ \E wfail \in {"none", "open", "write"} : download_try(wfail)
  \/ \E stale \in BOOLEAN, compiles \in BOOLEAN, startable \in BOOLEAN,
        errno \in Errnos, c \in ExitCodes :
       download_fallback(stale, compiles, startable, errno, c)

SpecDl == InitDl /\ [][NextDl]_vars

(***************************************************************************)
(* Properties of download, checked under SpecDl.                           *)
(***************************************************************************)
\* C10: the locators are tried strictly in list order; when one succeeds
\* the destination holds its content, download returns and neither a later
\* locator nor the delegated fallback is contacted; the fallback is invoked
\* only after every locator has been tried and has failed.
C10_FirstSuccessWins ==
  /\ \A k \in 1..Len(tried) : tried[k] = k
  /\ Len(tried) <= Len(urls)
  /\ dlWinner # 0 =>
       /\ dlPc = "returned"
       /\ dest = FileWith(ContentOf(urls[dlWinner]))
       /\ Len(tried) = dlWinner
       /\ fallbackRuns = 0
  /\ fallbackRuns # 0 =>
       /\ fallbackRuns = 1
       /\ Len(tried) = Len(urls)
       /\ dlWinner = 0

C10_Witness ==
  /\ Len(urls) = 3
  /\ dlWinner = 2
  /\ dlPc = "returned"
  /\ dest = FileWith("B")
  /\ tried = <<1, 2>>
  /\ urls[3].reachable

\* An I/O error was logged for the attempt of locator i.
IOErrorLogged(i) == \E k \in 1..Len(log) : log[k] = <<"Error", "IOError", i>>

\* C11: download(dest, [badURL, 'zip:' or 'jar:' + archiveURL + '!/' + entry])
\* with badURL unreachable and archiveURL serving a well-formed archive that
\* holds the entry: once the second locator has been attempted (without an
\* I/O error) download has returned, the delegated fallback was not used
\* and dest holds exactly the bytes of the entry.
C11_ArchiveEntryFetched ==
  ( /\ Len(urls) = 2
    /\ urls[1].scheme = "http" /\ ~urls[1].reachable
    /\ urls[2].scheme \in {"zip", "jar"} /\ urls[2].sep /\ urls[2].reachable
    /\ urls[2].body.isZip /\ urls[2].body.has
    /\ Len(tried) = 2
    /\ ~IOErrorLogged(2) )
  => /\ dlPc = "returned"
     /\ dlWinner = 2
     /\ fallbackRuns = 0
     /\ dest = FileWith(urls[2].body.entryData)

\* C12: download ends the program only after every locator has been
\* attempted and has failed and the loop has gone on to the delegated
\* fallback; the failed attempt of a single locator (transport error,
\* malformed archive, archive-qualified locator without "!/") is logged and
\* followed by the next locator, never by an abort.
C12_AbortOnlyWhenExhausted ==
  /\ [](dlPc = "raised" =>
          /\ Len(tried) = Len(urls)
          /\ dlIdx > Len(urls)
          /\ dlWinner = 0)
  /\ [][(tried' # tried /\ dlWinner' = 0) =>
          /\ prog' = "running"
          /\ dlIdx' = dlIdx + 1
          /\ Len(log') = Len(log) + 2
          /\ log'[Len(log')][1] = "Error"]_vars

\* C13: when every locator has failed and the helper was launched and
\* exited with a nonzero status, the program is aborted with the message
\* that lists the URLs and asks for a manual download; the abort value is
\* that message, not the helper's exit code.
C13_ExhaustedAbortsWithMessage ==
  ( /\ Len(urls) >= 1
    /\ Len(tried) = Len(urls) /\ dlWinner = 0
    /\ fallbackRuns = 1
    /\ Len(launched) = 1 /\ launched[1] = FallbackCmd
    /\ dlPc = "raised" )
  => /\ uncaught.kind = "SystemExit"
     /\ uncaught.arg.t = "str"
     /\ uncaught.arg.s[1] = "Could not download to "
     /\ uncaught.arg.s[4] = urls
     /\ exitStatus = 1

\* C27: the attempt of a locator that ends in a transport error (the URL
\* cannot be opened and read) or in a malformed-archive error leaves the
\* destination as it was and names no winner; an attempt changes the
\* destination only when the content of its locator was read (and the
\* entry extracted) in full, and the locator that changed it is the one
\* that succeeds unless the write of the destination itself failed.
C27_FailedFetchLeavesDest ==
  [][tried' # tried =>
       LET i == dlIdx
           loc == urls[i]
           last == log'[Len(log')]
           transport == ~loc.reachable /\ last = <<"Error", "IOError", i>>
           malformed == last = <<"Error", "BadZipfile", i>>
       IN /\ (transport \/ malformed) => (dest' = dest /\ dlWinner' = dlWinner)
          /\ dest' # dest =>
               /\ loc.reachable
               /\ Fetch(loc).res = "ok"
               /\ dlWinner' = i \/ last = <<"Error", "IOError", i>>]_vars

\* The first locator was unreachable and the second served no archive:
\* both were tried and the file that was there is as it was.
C27_Witness ==
  /\ Len(tried) = 2
  /\ ~urls[1].reachable
  /\ urls[2] = Archive("jar", TRUE, TRUE, RawBody("junk"))
  /\ \E k \in 1..Len(log) : log[k] = <<"Error", "BadZipfile", 2>>
  /\ IOErrorLogged(1)
  /\ dest = FileWith("old")
  /\ dlWinner = 0

(***************************************************************************)
(* Env.load_config_file                                                    *)
(*                                                                         *)
(* A line of the file is a tuple of pieces: names, "=", white space, and   *)
(* references to environment variables ("$HOME").                          *)
(***************************************************************************)
\* calls of load_config_file, and lines of a config file
MaxLoads == 2
MaxCfgLines == 2

WhiteSpace == {" ", "\t", "\n"}

\* str.strip(): leading and trailing white space removed.
RECURSIVE LStripWs(_)
LStripWs(s) == IF s # <<>> /\ Head(s) \in WhiteSpace THEN LStripWs(Tail(s)) ELSE s
RECURSIVE RStripWs(_)
RStripWs(s) ==
  IF s # <<>> /\ s[Len(s)] \in WhiteSpace THEN RStripWs(SubSeq(s, 1, Len(s) - 1)) ELSE s
Strip(s) == RStripWs(LStripWs(s))

\* str.lower(), piece by piece.
LowerPiece(x) ==
  CASE x = "JAVA" -> "java"
    [] x = "Home" -> "home"
    [] x = "OS" -> "os"
    [] OTHER -> x
Lower(s) == [i \in 1..Len(s) |-> LowerPiece(s[i])]

\* os.environ, and os.path.expandvars: a reference to a variable that is
\* set is replaced by its value, any other piece is left as it is.
Environ == [v \in {"$HOME"} |-> "/home/u"]
ExpandVars(s) == [i \in 1..Len(s) |-> IF s[i] \in DOMAIN Environ THEN Environ[s[i]] ELSE s[i]]

\* line.split('=', 1): the index of the first "=", 0 when there is none.
RECURSIVE FirstEq(_, _)
FirstEq(line, i) ==
  IF i > Len(line) THEN 0 ELSE IF line[i] = "=" THEN i ELSE FirstEq(line, i + 1)

\* k = k.strip().lower() and os.path.expandvars(v.strip()) of a line that
\* has an "=".
KeyOf(line) == Lower(Strip(SubSeq(line, 1, FirstEq(line, 1) - 1)))
ValueOf(line) == ExpandVars(Strip(SubSeq(line, FirstEq(line, 1) + 1, Len(line))))

\* MustSet with the test of the attribute lost.
MustSet_Always(override, has) == TRUE

\* if (override or not hasattr(self, k))
MustSet(override, has) == override \/ ~has

\* setattr(self, k, v)
SetAttr(a, k, v) == [x \in DOMAIN a \cup {k} |-> IF x = k THEN v ELSE a[x]]

CfgLineSet ==
  { <<"java", "_", "home", "=", "/opt/jdk6", "\n">>,
    <<" ", "JAVA", "_", "Home", " ", "=", " ", "/opt/jdk6", " ", "\n">>,
    <<"extra", "=", "$HOME", "/x", "\n">>,
    <<"OS", "=", "a", "=", "$B", "\n">>,
    <<"run", "=", "x", "\n">>,
    <<"#", "comment", "\n">> }

CfgFiles == UNION { [1..n -> CfgLineSet] : n \in 0..MaxCfgLines }

\* load_config_file(configFile, override) up to the loop: nothing is read
\* when the file does not exist.
load_config_file(f, present, override) ==
  /\ prog = "running"
  /\ cfgPc = "idle"
  /\ cfgLoads < MaxLoads
  /\ cfgLoads' = cfgLoads + 1
  /\ cfgOverride' = override
  /\ cfgLines' = IF present THEN f ELSE <<>>
  /\ cfgPc' = IF present /\ f # <<>> THEN "reading" ELSE "idle"
  /\ UNCHANGED <<progVars, runVars, javaVars, checkVars, fileVars, dlVars, attrs,
                 mainVars, graalVars>>

\* One iteration of the loop over the lines of the file: a line without
\* "=" makes the unpacking of the split raise ValueError.
config_line ==
  /\ prog = "running"
  /\ cfgPc = "reading"
  /\ LET line == Head(cfgLines) IN
       IF FirstEq(line, 1) = 0
       THEN /\ Terminate(Exc("ValueError", NoneVal))
            /\ cfgPc' = "raised"
            /\ UNCHANGED <<attrs, cfgLines>>
       ELSE LET k == KeyOf(line) IN
              /\ attrs' = IF MustSet(cfgOverride, k \in DOMAIN attrs)
                          THEN SetAttr(attrs, k, StrVal(ValueOf(line)))
                          ELSE attrs
              /\ cfgLines' = Tail(cfgLines)
              /\ cfgPc' = IF Tail(cfgLines) = <<>> THEN "idle" ELSE "reading"
              /\ UNCHANGED <<prog, exitStatus, uncaught>>
  /\ UNCHANGED <<log, launched, verbose, runVars, javaVars, checkVars, fileVars, dlVars,
                 cfgOverride, cfgLoads, mainVars, graalVars>>

InitConfig ==
  /\ InitProg
  /\ InitCfgVars
  /\ InitMainVars
  /\ InitGraalVars
  /\ verbose = FALSE
  /\ InitRunVars
  /\ InitJavaVars
  /\ InitCheckVars
  /\ InitFileVars
  /\ InitDlVars

NextConfig ==
  \/ \E f \in CfgFiles, present \in BOOLEAN, override \in BOOLEAN :
       load_config_file(f, present, override)
  \/ config_line

SpecConfig == InitConfig /\ [][NextConfig]_vars

(***************************************************************************)
(* Properties of load_config_file, checked under SpecConfig.               *)
(***************************************************************************)
\* The name a key of the file is written for: white space at its ends does
\* not count and neither does the case of its letters.
NamedAttr(line) ==
  LET k == SubSeq(line, 1, FirstEq(line, 1) - 1)
      bare == SelectSeq(k, LAMBDA x : x \notin WhiteSpace)
  IN [i \in 1..Len(bare) |->
        CASE bare[i] \in {"JAVA", "java"} -> "java"
          [] bare[i] \in {"Home", "home"} -> "home"
          [] bare[i] \in {"OS", "os"} -> "os"
          [] OTHER -> bare[i]]

\* C14: for every key=value line read, the attribute named is the key
\* stripped and lower-cased; with override false an attribute that exists
\* keeps its value and only an attribute that does not exist is set; with
\* override true the attribute is always replaced by the line's value; no
\* other attribute changes.
C14_ConfigOverride ==
  [][(cfgPc = "reading" /\ cfgLines' # cfgLines /\ cfgLines' = Tail(cfgLines)) =>
       LET line == Head(cfgLines)
           k == NamedAttr(line)
       IN /\ \A x \in DOMAIN attrs : x # k => (x \in DOMAIN attrs' /\ attrs'[x] = attrs[x])
          /\ DOMAIN attrs' = DOMAIN attrs \cup {k}
          /\ (~cfgOverride /\ k \in DOMAIN attrs) => attrs'[k] = attrs[k]
          /\ (cfgOverride \/ k \notin DOMAIN attrs) =>
               /\ attrs'[k].t = "str"
               /\ attrs'[k].s = ValueOf(line)]_vars

\* Two files were loaded, the second with override: java_home has been
\* replaced by the value of a line and extra has been created with $HOME
\* expanded.
C14_Witness ==
  /\ cfgLoads = 2
  /\ cfgOverride
  /\ cfgPc = "idle"
  /\ attrs[JAVA_HOME] = StrVal(<<"/opt/jdk6">>)
  /\ <<"extra">> \in DOMAIN attrs
  /\ attrs[<<"extra">>] = StrVal(<<"/home/u", "/x">>)

(***************************************************************************)
(* main                                                                    *)
(***************************************************************************)
\* words on the command line after the options
MaxCmdWords == 2

\* commands.table (two of its keys), and a word that is no command.
CommandTable == {"build", "check"}
Words == CommandTable \cup {"bogus"}
CmdLines == UNION { [1..n -> Words] : n \in 0..MaxCmdWords }

\* What a command function does: it returns None or an int, raises
\* SystemExit through abort, is interrupted, or fails with another
\* exception.
CommandReturns == {NoneVal, IntVal(0), IntVal(1), IntVal(3)}
CommandRaises ==
  { abort(IntVal(0)), abort(IntVal(3)), abort(NoneVal), abort(StrVal(<<"message">>)),
    Exc("KeyboardInterrupt", NoneVal), Exc("CalledProcessError", IntVal(3)) }

\* MainResult with the returned value ignored.
MainResult_IgnoresRetcode(retcode) == NoExc

\* if retcode is not None and retcode != 0: env.abort(retcode)
MainResult(retcode) ==
  IF retcode.t = "none" \/ (retcode.t = "int" /\ retcode.n = 0)
  THEN NoExc
  ELSE abort(retcode)

\* except KeyboardInterrupt: env.abort(1); any other exception goes on.
MainHandler(e) == IF e.kind = "KeyboardInterrupt" THEN abort(IntVal(1)) ELSE e

\* main returns and the program ends normally.
MainReturns ==
  /\ prog' = "exited"
  /\ exitStatus' = 0
  /\ UNCHANGED uncaught

\* main up to the call of the command function: parse_cmd_line (which
\* aborts when no Java home is found), the help for an empty command line,
\* the lookup of the command.
main_dispatch(javaHomeFound) ==
  /\ prog = "running"
  /\ mainPc = "start"
  /\ IF ~javaHomeFound
     THEN /\ Terminate(abort(StrVal(<<"Could not find Java home.">>)))
          /\ mainPc' = "done"
          /\ UNCHANGED <<command, cmdCalls, log>>
     ELSE IF Len(commandAndArgs) = 0
     THEN /\ MainReturns
          /\ log' = Append(log, <<"help">>)
          /\ mainPc' = "done"
          /\ UNCHANGED <<command, cmdCalls>>
     ELSE /\ command' = commandAndArgs[1]
          /\ UNCHANGED log
          /\ IF commandAndArgs[1] \notin CommandTable
             THEN /\ Terminate(abort(StrVal(<<"mx: unknown command ", commandAndArgs[1]>>)))
                  /\ mainPc' = "done"
                  /\ UNCHANGED cmdCalls
             ELSE /\ mainPc' = "command"
                  /\ cmdCalls' = cmdCalls + 1
                  /\ UNCHANGED <<prog, exitStatus, uncaught>>
  /\ UNCHANGED <<launched, verbose, runVars, javaVars, checkVars, fileVars, dlVars,
                 cfgVars, graalVars, commandAndArgs, cmdRet, cmdExc>>

\* The command function returns r, and main ends.
command_returns(r) ==
  /\ prog = "running"
  /\ mainPc = "command"
  /\ cmdRet' = r
  /\ mainPc' = "done"
  /\ IF MainResult(r) = NoExc THEN MainReturns ELSE Terminate(MainResult(r))
  /\ UNCHANGED <<log, launched, verbose, runVars, javaVars, checkVars, fileVars, dlVars,
                 cfgVars, graalVars, commandAndArgs, command, cmdCalls, cmdExc>>

\* The command function raises e, and main ends.
command_raises(e) ==
  /\ prog = "running"
  /\ mainPc = "command"
  /\ cmdExc' = e
  /\ mainPc' = "done"
  /\ Terminate(MainHandler(e))
  /\ UNCHANGED <<log, launched, verbose, runVars, javaVars, checkVars, fileVars, dlVars,
                 cfgVars, graalVars, commandAndArgs, command, cmdCalls, cmdRet>>

InitMain ==
  /\ InitProg
  /\ InitCfgVars
  /\ InitGraalVars
  /\ verbose \in BOOLEAN
  /\ InitRunVars
  /\ InitJavaVars
  /\ InitCheckVars
  /\ InitFileVars
  /\ InitDlVars
  /\ commandAndArgs \in CmdLines
  /\ command = ""
  /\ mainPc = "start"
  /\ cmdCalls = 0
  /\ cmdRet = NoneVal
  /\ cmdExc = NoExc

NextMain ==
  \/ \E javaHomeFound \in BOOLEAN : main_dispatch(javaHomeFound)
  \/ \E r \in CommandReturns : command_returns(r)
  \/ \E e \in CommandRaises : command_raises(e)

SpecMain == InitMain /\ [][NextMain]_vars

(***************************************************************************)
(* Properties of main, checked under SpecMain.                             *)
(***************************************************************************)
\* The command function was called and is over.
CommandOver == mainPc = "done" /\ cmdCalls = 1

\* C16: a command that returns None or 0 ends the program with status 0;
\* one that returns a nonzero integer ends it with that status; an abort
\* raised in the command gives the exit status of the abort; an interrupt
\* of the command gives status 1; an unknown command name aborts and no
\* command function is invoked.
C16_MainExitStatus ==
  /\ (CommandOver /\ cmdExc = NoExc /\ (cmdRet.t = "none" \/ cmdRet = IntVal(0)))
       => (prog = "exited" /\ exitStatus = 0 /\ uncaught = NoExc)
  /\ (CommandOver /\ cmdExc = NoExc /\ cmdRet.t = "int" /\ cmdRet.n # 0)
       => (prog = "exited" /\ exitStatus = cmdRet.n)
  /\ (CommandOver /\ cmdExc.kind = "SystemExit")
       => /\ prog = "exited"
          /\ uncaught = cmdExc
          /\ exitStatus = CASE cmdExc.arg.t = "int" -> cmdExc.arg.n
                            [] cmdExc.arg.t = "none" -> 0
                            [] OTHER -> 1
  /\ (CommandOver /\ cmdExc.kind = "KeyboardInterrupt")
       => (prog = "exited" /\ exitStatus = 1)
  /\ (mainPc # "start" /\ commandAndArgs # <<>> /\ commandAndArgs[1] \notin CommandTable)
       => (cmdCalls = 0 /\ prog = "exited" /\ uncaught.kind = "SystemExit"
           /\ exitStatus = 1)
  /\ cmdCalls <= 1

\* A command returned 3 and the program has ended with status 3.
C16_Witness ==
  /\ CommandOver
  /\ cmdRet = IntVal(3)
  /\ cmdExc = NoExc
  /\ prog = "exited"
  /\ exitStatus = 3

(***************************************************************************)
(* Env.run_graalvm                                                         *)
(***************************************************************************)
\* calls of run_graalvm in one program run
MaxGraalCalls == 2

\* The --graalvm option and the GRAALVM variable: not given, or a path.
GraalOption == {NoneVal, StrVal(<<"/opt/graalvm">>)}
GraalEnviron == {NoneVal, StrVal(<<"/env/graalvm">>)}

\* join(self.graalvm, 'bin', 'java.exe') on windows, else join(self.graalvm,
\* 'bin', 'java').
GraalExe(g, o) == g.s \o <<"/bin/", IF o = "windows" THEN "java.exe" ELSE "java">>

VersionCmd(exe) == <<exe, <<"-graal">>, <<"-XX:-BootstrapGraal">>, <<"-version">> >>

\* The two reasons of the 'Invalid GraalVM executable' message.
ReasonNotInOutput == "\"Graal VM\" was not in the output of the following command"
ReasonErrorRaised == "Error raised when executing the following command"
InvalidGraalVM(exe, reason) ==
  abort(StrVal(<<"Invalid GraalVM executable: ">> \o exe \o <<reason>>))

\* How the version command goes: its output holds 'Graal VM' ("ok") or
\* does not ("other"), it exits with a nonzero status ("failed") or it
\* cannot be started ("oserror").
VersionOutcomes == {"ok", "other", "failed", "oserror"}

\* The body of the try statement: what it raises, NoExc when it completes.
VersionTry(ver, exe) ==
  CASE ver = "ok" -> NoExc
    [] ver = "other" -> InvalidGraalVM(exe, ReasonNotInOutput)
    [] ver = "failed" -> Exc("CalledProcessError", NoneVal)
    [] OTHER -> Exc("OSError", NoneVal)

\* The bare except clause: it catches whatever the body raised, the
\* SystemExit of the body's own abort included, and aborts.
VersionCheck(ver, exe) ==
  IF VersionTry(ver, exe) # NoExc
  THEN InvalidGraalVM(exe, ReasonErrorRaised)
  ELSE NoExc

\* graalvm_cmd + args
GraalCmd(exe, dbg, args) ==
  <<exe, <<"-graal">> >> \o (IF dbg THEN DebugFlags ELSE <<>>) \o args

\* run_graalvm(args, nonZeroIsFatal).  env: the GRAALVM variable; present:
\* the executable exists; ver: how the version command goes; the command
\* given to run cannot be started (errno) or exits with status c.
run_graalvm(args, nzf, env, present, ver, startable, errno, c) ==
  /\ prog = "running"
  /\ gvCalls < MaxGraalCalls
  /\ gvCalls' = gvCalls + 1
  /\ LET g == IF graalvm = NoneVal THEN env ELSE graalvm
         exe == GraalExe(g, os)
         cmd == GraalCmd(exe, java_dbg, args)
         stop(e) == /\ Terminate(e)
                    /\ gvRet' = NoRet
                    /\ UNCHANGED <<log, launched>>
     IN /\ graalvm' = g
        /\ CASE g = NoneVal ->
                  /\ stop(abort(StrVal(<<"Cannot find GraalVM - use --graalvm option or set GRAALVM variable">>)))
                  /\ gvVersion' = "none"
             [] g # NoneVal /\ ~present ->
                  /\ stop(abort(StrVal(<<"GraalVM executable does not exist: ">> \o exe)))
                  /\ gvVersion' = "none"
             [] g # NoneVal /\ present /\ VersionCheck(ver, exe) # NoExc ->
                  /\ stop(VersionCheck(ver, exe))
                  /\ gvVersion' = ver
             [] OTHER ->
                  /\ gvVersion' = ver
                  /\ IF startable
                     THEN LET e == RunResult(c, nzf, verbose) IN
                            /\ log' = LogCmd(log, cmd, verbose)
                            /\ launched' = Append(launched, cmd)
                            /\ IF e = NoExc
                               THEN /\ gvRet' = c
                                    /\ UNCHANGED <<prog, exitStatus, uncaught>>
                               ELSE /\ Terminate(e)
                                    /\ gvRet' = NoRet
                     ELSE /\ log' = Append(LogCmd(log, cmd, verbose),
                                           <<"Error executing", cmd, errno>>)
                          /\ Terminate(OnOSError(errno, verbose))
                          /\ gvRet' = NoRet
                          /\ UNCHANGED launched
  /\ UNCHANGED <<verbose, runVars, javaVars, checkVars, fileVars, dlVars, cfgVars,
                 mainVars, os>>

InitGraal ==
  /\ InitProg
  /\ verbose \in BOOLEAN
  /\ InitRunVars
  /\ java_dbg \in BOOLEAN
  /\ jvm = NoJvm
  /\ rawJava = [args |-> DEFAULT_JAVA_ARGS, pfx |-> <<>>, sfx |-> <<>>]
  /\ java_args = StrArgs(DEFAULT_JAVA_ARGS)
  /\ java_args_pfx = <<>>
  /\ java_args_sfx = <<>>
  /\ java_initialized = FALSE
  /\ probes = <<>>
  /\ initRuns = 0
  /\ jcalls = 0
  /\ lastCmd = <<>>
  /\ jret = NoRet
  /\ InitCheckVars
  /\ InitFileVars
  /\ InitDlVars
  /\ InitCfgVars
  /\ InitMainVars
  /\ graalvm \in GraalOption
  /\ os \in {"windows", "linux"}
  /\ gvCalls = 0
  /\ gvVersion = "none"
  /\ gvRet = NoRet

NextGraal ==
  \E args \in JavaCmdArgs, nzf \in BOOLEAN, env \in GraalEnviron, present \in BOOLEAN,
     ver \in VersionOutcomes, startable \in BOOLEAN, errno \in Errnos, c \in ExitCodes :
    run_graalvm(args, nzf, env, present, ver, startable, errno, c)

SpecGraal == InitGraal /\ [][NextGraal]_vars

(***************************************************************************)
(* Properties of run_graalvm, checked under SpecGraal.                     *)
(***************************************************************************)
\* The reason the program was aborted with, "" when it was not aborted
\* with a message.
AbortReason(e) ==
  IF e.kind = "SystemExit" /\ e.arg.t = "str" THEN e.arg.s[Len(e.arg.s)] ELSE ""

\* C28: when the version command runs but its output does not hold
\* 'Graal VM' the program is aborted with the reason that "Graal VM" was
\* not in the output; the reason 'Error raised when executing the
\* following command' is given only when running the version command
\* raised an error; in both cases nothing is launched through run.
C28_GraalVersionMessages ==
  [][gvCalls' = gvCalls + 1 =>
       /\ gvVersion' = "other"
            => (prog' = "exited" /\ AbortReason(uncaught') = ReasonNotInOutput)
       /\ AbortReason(uncaught') = ReasonErrorRaised
            => gvVersion' \in {"failed", "oserror"}
       /\ gvVersion' \in {"other", "failed", "oserror"}
            => (prog' = "exited" /\ launched' = launched /\ gvRet' = NoRet)]_vars

====
